---------------------------- MODULE Spec2Model ----------------------------
(***************************************************************************)
(* A model of the rust-hyperscan binding layer: compile.rs (CompileFlags,  *)
(* Pattern, Database::compile, Builder for Patterns) and                   *)
(* common/serialized.rs (CBuffer, Serialized, DatabaseRef::serialize and   *)
(* DatabaseRef::deserialize_at).                                           *)
(*                                                                         *)
(* Text is a sequence of one-character strings.  A usize is a sequence of  *)
(* four 16-bit limbs, least significant first, a c_uint a sequence of two. *)
(***************************************************************************)
EXTENDS Integers, Sequences, FiniteSets, TLC

VARIABLES
    hist,    \* the values of a chain of calls of the pure functions: input first
    dbs,     \* Database handles by name: NoDb or the handle and the engine database behind it
    data,    \* the CBuffer returned by serialize: NoBuf or the buffer
    heap,    \* engine allocations handed out by hs_serialize_database
    last     \* the last call of the database API and what it returned

vars == <<hist, dbs, data, heap, last>>

(***************************************************************************)
(* Bounds of the model.                                                    *)
(***************************************************************************)
MaxFlagTextLen == 3
MaxTextLen == 5
MaxExprLen == 2
MaxOps == 2
MaxPatterns == 2
MaxAllocs == 2

(***************************************************************************)
(* Generic helpers.                                                        *)
(***************************************************************************)
Range(s) == {s[i] : i \in 1..Len(s)}

Last(s) == s[Len(s)]

RECURSIVE SeqsUpTo(_, _)
SeqsUpTo(S, n) ==
    IF n = 0 THEN {<<>>}
    ELSE LET shorter == SeqsUpTo(S, n - 1)
         IN  shorter \cup {Append(s, c) : s \in {t \in shorter : Len(t) = n - 1}, c \in S}

RECURSIVE Concat(_)
Concat(ss) == IF ss = <<>> THEN <<>> ELSE Head(ss) \o Concat(Tail(ss))

\* u32 bit operations, on the values the flags take.
RECURSIVE BitAnd(_, _)
BitAnd(a, b) ==
    IF a = 0 \/ b = 0 THEN 0
    ELSE (a % 2) * (b % 2) + 2 * BitAnd(a \div 2, b \div 2)

RECURSIVE BitOr(_, _)
BitOr(a, b) ==
    IF a = 0 THEN b
    ELSE IF b = 0 THEN a
    ELSE (IF a % 2 = 1 \/ b % 2 = 1 THEN 1 ELSE 0) + 2 * BitOr(a \div 2, b \div 2)

RECURSIVE BitXor(_, _)
BitXor(a, b) ==
    IF a = 0 THEN b
    ELSE IF b = 0 THEN a
    ELSE ((a + b) % 2) + 2 * BitXor(a \div 2, b \div 2)

(***************************************************************************)
(* Results.                                                                *)
(***************************************************************************)
Ok(v) == [ok |-> TRUE, val |-> v]

Err(kind, what) == [ok |-> FALSE, err |-> kind, what |-> what]

(***************************************************************************)
(* CompileFlags.                                                           *)
(***************************************************************************)
HS_FLAG_CASELESS == 1
HS_FLAG_MULTILINE == 2
HS_FLAG_DOTALL == 4
HS_FLAG_SINGLEMATCH == 8
HS_FLAG_ALLOWEMPTY == 16
HS_FLAG_UTF8 == 32
HS_FLAG_UCP == 64
HS_FLAG_COMBINATION == 512
HS_FLAG_QUIET == 1024

\* CompileFlags::is_set
is_set(flags, flag) == BitAnd(flags, flag) = flag

\* CompileFlags::set: self.0 |= flag
set(flags, flag) == BitOr(flags, flag)

\* One arm of the Display impl: write!(f, letter) when the flag is set.
WriteIf(flags, flag, letter) == IF is_set(flags, flag) THEN <<letter>> ELSE <<>>

\* A Display impl that forgets the DOTALL arm.
CompileFlagsFmtNoDotall(flags) ==
    Concat(<<WriteIf(flags, HS_FLAG_CASELESS, "i"),
             WriteIf(flags, HS_FLAG_MULTILINE, "m"),
             WriteIf(flags, HS_FLAG_SINGLEMATCH, "H"),
             WriteIf(flags, HS_FLAG_ALLOWEMPTY, "V"),
             WriteIf(flags, HS_FLAG_UTF8, "8"),
             WriteIf(flags, HS_FLAG_UCP, "W"),
             WriteIf(flags, HS_FLAG_COMBINATION, "C"),
             WriteIf(flags, HS_FLAG_QUIET, "Q")>>)

\* impl fmt::Display for CompileFlags
CompileFlagsFmt(flags) ==
    Concat(<<WriteIf(flags, HS_FLAG_CASELESS, "i"),
             WriteIf(flags, HS_FLAG_MULTILINE, "m"),
             WriteIf(flags, HS_FLAG_DOTALL, "s"),
             WriteIf(flags, HS_FLAG_SINGLEMATCH, "H"),
             WriteIf(flags, HS_FLAG_ALLOWEMPTY, "V"),
             WriteIf(flags, HS_FLAG_UTF8, "8"),
             WriteIf(flags, HS_FLAG_UCP, "W"),
             WriteIf(flags, HS_FLAG_COMBINATION, "C"),
             WriteIf(flags, HS_FLAG_QUIET, "Q")>>)

\* The match of CompileFlags::parse: the bit of a letter, or -1 for the `_` arm.
FlagOfChar(c) ==
    CASE c = "i" -> HS_FLAG_CASELESS
      [] c = "m" -> HS_FLAG_MULTILINE
      [] c = "s" -> HS_FLAG_DOTALL
      [] c = "H" -> HS_FLAG_SINGLEMATCH
      [] c = "V" -> HS_FLAG_ALLOWEMPTY
      [] c = "8" -> HS_FLAG_UTF8
      [] c = "W" -> HS_FLAG_UCP
      [] c = "C" -> HS_FLAG_COMBINATION
      [] c = "Q" -> HS_FLAG_QUIET
      [] OTHER -> -1

\* A loop body that toggles the bit instead of setting it.
ParseStepToggle(flags, c) == BitXor(flags, FlagOfChar(c))

\* flags |= HS_FLAG_x
ParseStep(flags, c) == BitOr(flags, FlagOfChar(c))

\* The loop of CompileFlags::parse over s.chars(), from the flags so far.
RECURSIVE ParseLoop(_, _)
ParseLoop(flags, s) ==
    IF s = <<>> THEN Ok(flags)
    ELSE IF FlagOfChar(Head(s)) = -1 THEN Err("InvalidFlag", Head(s))
    ELSE ParseLoop(ParseStep(flags, Head(s)), Tail(s))

\* CompileFlags::parse
CompileFlagsParse(s) == ParseLoop(0, s)


(***************************************************************************)
(* usize and c_uint: sequences of 16-bit limbs, least significant first.   *)
(***************************************************************************)
LimbBase == 2^16

UsizeLimbs == 4

CUintLimbs == 2

RECURSIVE NatToLimbs(_, _)
NatToLimbs(n, k) ==
    IF k = 0 THEN <<>> ELSE <<n % LimbBase>> \o NatToLimbs(n \div LimbBase, k - 1)

\* A small number as a usize.
Usize(n) == NatToLimbs(n, UsizeLimbs)

IsZero(n) == \A i \in 1..Len(n) : n[i] = 0

\* n * m + carry over the limbs: the product's limbs and the carry out of the top.
RECURSIVE MulAddLimbs(_, _, _)
MulAddLimbs(n, m, carry) ==
    IF n = <<>> THEN [val |-> <<>>, carry |-> carry]
    ELSE LET t == Head(n) * m + carry
             rest == MulAddLimbs(Tail(n), m, t \div LimbBase)
         IN  [val |-> <<t % LimbBase>> \o rest.val, carry |-> rest.carry]

\* n divided by m, from the top limb down with the remainder so far.
RECURSIVE DivLimbs(_, _, _)
DivLimbs(n, m, rem) ==
    IF n = <<>> THEN [q |-> <<>>, r |-> rem]
    ELSE LET cur == rem * LimbBase + n[Len(n)]
             lower == DivLimbs(SubSeq(n, 1, Len(n) - 1), m, cur % m)
         IN  [q |-> Append(lower.q, cur \div m), r |-> lower.r]

Digits == <<"0", "1", "2", "3", "4", "5", "6", "7", "8", "9">>

IsDigit(c) == c \in Range(Digits)

\* char::to_digit(10)
DigitVal(c) == (CHOOSE i \in 1..10 : Digits[i] = c) - 1

\* impl Display for usize: the decimal digits, "0" for zero.
RECURSIVE UsizeDigits(_)
UsizeDigits(n) ==
    IF IsZero(n) THEN <<>>
    ELSE LET d == DivLimbs(n, 10, 0) IN Append(UsizeDigits(d.q), Digits[d.r + 1])

UsizeFmt(n) == IF IsZero(n) THEN <<"0">> ELSE UsizeDigits(n)

\* The digit loop of usize::from_str: checked_mul(10) then checked_add(digit).
RECURSIVE ParseDigits(_, _)
ParseDigits(acc, s) ==
    IF s = <<>> THEN Ok(acc)
    ELSE IF ~IsDigit(Head(s)) THEN Err("InvalidId", "InvalidDigit")
    ELSE LET r == MulAddLimbs(acc, 10, DigitVal(Head(s)))
         IN  IF r.carry # 0 THEN Err("InvalidId", "PosOverflow")
             ELSE ParseDigits(r.val, Tail(s))

\* str::parse::<usize>(): empty fails, a lone sign fails, one leading '+' is
\* skipped, '-' is no digit of an unsigned type.
ParseUsize(s) ==
    IF s = <<>> THEN Err("InvalidId", "Empty")
    ELSE IF Len(s) = 1 /\ Head(s) \in {"+", "-"} THEN Err("InvalidId", "InvalidDigit")
    ELSE ParseDigits(Usize(0), IF Head(s) = "+" THEN Tail(s) ELSE s)

\* `as c_uint` of a usize: the low 32 bits.
AsCUint(n) == SubSeq(n, 1, CUintLimbs)

(***************************************************************************)
(* Pattern.                                                                *)
(***************************************************************************)
\* str::find(c): the 0-based index of the first c, -1 for None.
RECURSIVE FindFrom(_, _, _)
FindFrom(s, c, i) ==
    IF i > Len(s) THEN -1
    ELSE IF s[i] = c THEN i - 1
    ELSE FindFrom(s, c, i + 1)

Find(s, c) == FindFrom(s, c, 1)

\* str::rfind(c): the 0-based index of the last c, -1 for None.
RECURSIVE RFindFrom(_, _, _)
RFindFrom(s, c, i) ==
    IF i < 1 THEN -1
    ELSE IF s[i] = c THEN i - 1
    ELSE RFindFrom(s, c, i - 1)

RFind(s, c) == RFindFrom(s, c, Len(s))

\* str::starts_with(c)
StartsWith(s, c) == Len(s) >= 1 /\ s[1] = c

\* s.get_unchecked(a..b), for 0-based a <= b <= len.
Slice(s, a, b) == SubSeq(s, a + 1, b)

\* A split at the last ':' instead of the first.
SplitIdAtLast(s) ==
    LET off == RFind(s, ":")
    IN  IF off # -1
        THEN [id |-> ParseUsize(Slice(s, 0, off)), expr |-> Slice(s, off + 1, Len(s))]
        ELSE [id |-> Ok(Usize(0)), expr |-> s]

\* The first match of Pattern::parse: the id before the first ':' and the rest.
SplitId(s) ==
    LET off == Find(s, ":")
    IN  IF off # -1
        THEN [id |-> ParseUsize(Slice(s, 0, off)), expr |-> Slice(s, off + 1, Len(s))]
        ELSE [id |-> Ok(Usize(0)), expr |-> s]

\* A guard that also takes a last '/' at index 0.
IsSlashFormFromZero(expr) == StartsWith(expr, "/") /\ RFind(expr, "/") >= 0

\* The guard of the first arm of the second match: (true, Some(end)) if end > 0.
IsSlashForm(expr) == StartsWith(expr, "/") /\ RFind(expr, "/") # -1 /\ RFind(expr, "/") > 0

\* Pattern::parse
PatternParse(s) ==
    LET split == SplitId(s)
        expr == split.expr
        end == RFind(expr, "/")
    IN  IF ~split.id.ok THEN split.id
        ELSE IF IsSlashForm(expr)
        THEN LET flags == CompileFlagsParse(Slice(expr, end + 1, Len(expr)))
             IN  IF ~flags.ok THEN flags
                 ELSE Ok([expression |-> Slice(expr, 1, end),
                          flags |-> flags.val,
                          id |-> split.id.val])
        ELSE Ok([expression |-> expr, flags |-> 0, id |-> split.id.val])

\* regex_syntax::is_meta_character
MetaChars == {"\\", ".", "+", "*", "?", "(", ")", "|", "[", "]", "{", "}", "^", "$", "#", "&", "-", "~"}

\* regex_syntax::escape: a backslash before every meta character.
RECURSIVE Escape(_)
Escape(s) ==
    IF s = <<>> THEN <<>>
    ELSE (IF Head(s) \in MetaChars THEN <<"\\", Head(s)>> ELSE <<Head(s)>>) \o Escape(Tail(s))

\* A rendering that leaves out the '/' that opens the expression.
PatternFmtNoOpen(p) ==
    UsizeFmt(p.id) \o <<":">> \o Escape(p.expression) \o <<"/">> \o CompileFlagsFmt(p.flags)

\* impl fmt::Display for Pattern: "{}:/{}/{}"
PatternFmt(p) ==
    UsizeFmt(p.id) \o <<":", "/">> \o Escape(p.expression) \o <<"/">> \o CompileFlagsFmt(p.flags)

(***************************************************************************)
(* The values of a chain of calls.                                         *)
(***************************************************************************)
TextVal(s) == [kind |-> "text", text |-> s]

FlagsVal(f) == [kind |-> "flags", flags |-> f]

ErrorVal(r) == [kind |-> "error", err |-> r.err, what |-> r.what]

\* Every u32 the model takes as a CompileFlags: the eleven lowest bits.
FlagValues == 0..2047

\* The flag arguments given to set: one flag, two flags at once, and a bit
\* that is no flag.
FlagArgs == {HS_FLAG_MULTILINE, HS_FLAG_CASELESS + HS_FLAG_UTF8, 128}

FlagAlphabet == {"i", "m", "s", "H", "V", "8", "W", "C", "Q", "x", "/"}

\* The state left by the construction of the database side: nothing built yet.
NoDb == [state |-> "none"]

NoBuf == [state |-> "none"]

\* The databases the caller holds.
DbNames == {"db", "restored"}

\* The engine's description string of the last info call: whether the engine
\* allocated it, how often it was freed, and whether the pointer was read.
NoStr == [alloc |-> FALSE, frees |-> 0, read |-> FALSE]

DbIdle ==
    /\ dbs = [d \in DbNames |-> NoDb]
    /\ data = NoBuf
    /\ heap = <<>>
    /\ last = [op |-> "none", ok |-> TRUE, err |-> "none", short |-> FALSE, wrote |-> FALSE,
               str |-> NoStr]

DbUnchanged == UNCHANGED <<dbs, data, heap, last>>

(***************************************************************************)
(* CompileFlags: a flags value or a text, then set, is_set, Display, parse. *)
(***************************************************************************)
InitFlags ==
    /\ \/ \E f \in FlagValues : hist = <<FlagsVal(f)>>
       \/ \E s \in SeqsUpTo(FlagAlphabet, MaxFlagTextLen) : hist = <<TextVal(s)>>
    /\ DbIdle

\* format!("{}", flags)
FlagsDisplay ==
    /\ Len(hist) <= MaxOps
    /\ Last(hist).kind = "flags"
    /\ hist' = Append(hist, TextVal(CompileFlagsFmt(Last(hist).flags)))
    /\ DbUnchanged

\* CompileFlags::parse(text) / text.parse::<CompileFlags>()
FlagsParse ==
    /\ Len(hist) <= MaxOps
    /\ Last(hist).kind = "text"
    /\ LET r == CompileFlagsParse(Last(hist).text)
       IN  hist' = Append(hist, IF r.ok THEN FlagsVal(r.val) ELSE ErrorVal(r))
    /\ DbUnchanged

\* flags.set(flag): the flags value after the call follows the one before.
FlagsSet ==
    /\ Len(hist) <= MaxOps
    /\ Last(hist).kind = "flags"
    /\ \E flag \in FlagArgs :
           hist' = Append(hist, FlagsVal(set(Last(hist).flags, flag)))
    /\ DbUnchanged

\* flags.is_set(flag): the answer follows the flags value it was asked of.
FlagsIsSet ==
    /\ Len(hist) <= MaxOps
    /\ Last(hist).kind = "flags"
    /\ \E flag \in FlagArgs :
           hist' = Append(hist, [kind |-> "bool", flag |-> flag,
                                 val |-> is_set(Last(hist).flags, flag)])
    /\ DbUnchanged

NextFlags == FlagsSet \/ FlagsIsSet \/ FlagsDisplay \/ FlagsParse

SpecFlags == InitFlags /\ [][NextFlags]_vars

(***************************************************************************)
(* Claims about CompileFlags.                                              *)
(***************************************************************************)
FlagLetterOrder == <<"i", "m", "s", "H", "V", "8", "W", "C", "Q">>

\* The bit each letter stands for, by position in the fixed order.
FlagBitOrder == <<1, 2, 4, 8, 16, 32, 64, 512, 1024>>

\* Bit b (a power of two) of f, by arithmetic.
HasBit(f, b) == (f \div b) % 2 = 1

\* f has no bit outside the nine defined ones.
ValidFlags(f) == f \in FlagValues /\ ~HasBit(f, 128) /\ ~HasBit(f, 256)

\* The letters of the set bits of f, in the fixed order.
LettersOf(f) ==
    LET Keep(i) == HasBit(f, FlagBitOrder[i])
        F[i \in 0..9] ==
            IF i = 0 THEN <<>>
            ELSE IF Keep(i) THEN Append(F[i - 1], FlagLetterOrder[i]) ELSE F[i - 1]
    IN  F[9]

\* The flags value a set of letters stands for.
ValueOfLetters(S) ==
    LET F[i \in 0..9] ==
            IF i = 0 THEN 0
            ELSE F[i - 1] + (IF FlagLetterOrder[i] \in S THEN FlagBitOrder[i] ELSE 0)
    IN  F[9]

\* C1: for every valid flags value f (only the nine defined bits), Display
\* renders one letter per set bit in the order i,m,s,H,V,8,W,C,Q and nothing
\* for a clear bit, and CompileFlags::parse of that rendering succeeds and
\* returns exactly f.
C1_FlagRoundTrip ==
    \A k \in 1..Len(hist) :
        (hist[k].kind = "flags" /\ ValidFlags(hist[k].flags)) =>
            /\ (k + 1 <= Len(hist) /\ hist[k + 1].kind = "text") =>
                   hist[k + 1] = TextVal(LettersOf(hist[k].flags))
            /\ (k + 2 <= Len(hist) /\ hist[k + 1].kind = "text") =>
                   hist[k + 2] = FlagsVal(hist[k].flags)

C1_Witness ==
    /\ Len(hist) = 3
    /\ hist[1] = FlagsVal(HS_FLAG_CASELESS + HS_FLAG_DOTALL + HS_FLAG_UTF8 + HS_FLAG_QUIET)
    /\ hist[2] = TextVal(<<"i", "s", "8", "Q">>)
    /\ hist[3] = hist[1]

\* C4: CompileFlags::parse scans left to right; a text with a character
\* outside the nine flag letters fails with InvalidFlag naming the first such
\* character and yields no flags; a text of flag letters only succeeds with
\* the value of its set of letters, so repeating or reordering letters does
\* not change the result.
C4_ParseFlags ==
    \A k \in 1..(Len(hist) - 1) :
        hist[k].kind = "text" =>
            LET s == hist[k].text
                bad == {i \in 1..Len(s) : s[i] \notin Range(FlagLetterOrder)}
            IN  IF bad # {}
                THEN LET first == CHOOSE i \in bad : \A j \in bad : i <= j
                     IN  hist[k + 1] = [kind |-> "error", err |-> "InvalidFlag", what |-> s[first]]
                ELSE hist[k + 1] = FlagsVal(ValueOfLetters(Range(s)))

C4_Witness ==
    /\ Len(hist) >= 2
    /\ hist[1] = TextVal(<<"i", "x", "/">>)
    /\ hist[2] = [kind |-> "error", err |-> "InvalidFlag", what |-> "x"]

(***************************************************************************)
(* Pattern: a text or a Pattern, then parse and Display in turn.           *)
(***************************************************************************)
PatternVal(p) ==
    [kind |-> "pattern", expression |-> p.expression, flags |-> p.flags, id |-> p.id]

TextAlphabet == {":", "/", "3", "i", "x", "+"}

ExprAlphabet == {":", "/", "+", "x", "i"}

\* 2^64 as decimal digits: one more than a usize holds.
TooBigDigits ==
    <<"1", "8", "4", "4", "6", "7", "4", "4", "0", "7",
      "3", "7", "0", "9", "5", "5", "1", "6", "1", "6">>

\* Texts longer than the enumerated ones: ids at and over the top of usize.
LongTexts ==
    {TooBigDigits \o <<":", "/", "x", "/", "i">>,
     SubSeq(TooBigDigits, 1, 19) \o <<"5", ":", "x">>,
     <<"0", "0", "3", ":", "/", "x", ":", "/", "/", "i", "s">>}

\* usize values: 0, 3, 2^16, 2^32 - 1, 2^32, 2^32 + 3, 2^64 - 1.
IdSamples ==
    {Usize(0), Usize(3), <<0, 1, 0, 0>>, <<65535, 65535, 0, 0>>,
     <<0, 0, 1, 0>>, <<3, 0, 1, 0>>, <<65535, 65535, 65535, 65535>>}

\* Flags values of Patterns; the last has a bit (128) that is none of the nine.
FlagSamples ==
    {0, HS_FLAG_CASELESS, HS_FLAG_CASELESS + HS_FLAG_DOTALL,
     HS_FLAG_SINGLEMATCH + HS_FLAG_UTF8 + HS_FLAG_QUIET,
     HS_FLAG_CASELESS + 128}

InitPattern ==
    /\ \/ \E s \in SeqsUpTo(TextAlphabet, MaxTextLen) \cup LongTexts : hist = <<TextVal(s)>>
       \/ \E e \in SeqsUpTo(ExprAlphabet, MaxExprLen), f \in FlagSamples, i \in IdSamples :
              hist = <<PatternVal([expression |-> e, flags |-> f, id |-> i])>>
    /\ DbIdle

\* Pattern::parse(text) / text.parse::<Pattern>()
PatternParseCall ==
    /\ Len(hist) <= MaxOps
    /\ Last(hist).kind = "text"
    /\ LET r == PatternParse(Last(hist).text)
       IN  hist' = Append(hist, IF r.ok THEN PatternVal(r.val) ELSE ErrorVal(r))
    /\ DbUnchanged

\* pattern.to_string()
PatternDisplay ==
    /\ Len(hist) <= MaxOps
    /\ Last(hist).kind = "pattern"
    /\ hist' = Append(hist, TextVal(PatternFmt(Last(hist))))
    /\ DbUnchanged

NextPattern == PatternParseCall \/ PatternDisplay

SpecPattern == InitPattern /\ [][NextPattern]_vars

(***************************************************************************)
(* Claims about Pattern::parse and Pattern's Display.                      *)
(***************************************************************************)
Positions(s, c) == {i \in 1..Len(s) : s[i] = c}

MinOf(S) == CHOOSE i \in S : \A j \in S : i <= j

MaxOf(S) == CHOOSE i \in S : \A j \in S : i >= j

\* The text after the first ':' when there is one, else the whole text.
RemainderOf(s) ==
    IF Positions(s, ":") = {} THEN s ELSE SubSeq(s, MinOf(Positions(s, ":")) + 1, Len(s))

\* The text before the first ':'.
IdTextOf(s) == SubSeq(s, 1, MinOf(Positions(s, ":")) - 1)

IsInvalidId(v) == v.kind = "error" /\ v.err = "InvalidId"

\* What the remainder rule yields for a remainder, given the id.
RemainderRule(rem, id) ==
    LET slashes == Positions(rem, "/")
    IN  IF slashes # {} /\ MinOf(slashes) = 1 /\ MaxOf(slashes) > 1
        THEN LET flags == CompileFlagsParse(SubSeq(rem, MaxOf(slashes) + 1, Len(rem)))
             IN  IF ~flags.ok
                 THEN [kind |-> "error", err |-> "InvalidFlag", what |-> flags.what]
                 ELSE [kind |-> "pattern",
                       expression |-> SubSeq(rem, 2, MaxOf(slashes) - 1),
                       flags |-> flags.val,
                       id |-> id]
        ELSE [kind |-> "pattern", expression |-> rem, flags |-> 0, id |-> id]

\* C2: the slash-delimited form is used exactly when the remainder starts with
\* '/' and its last '/' is not at index 0; then the expression is the text
\* strictly between the first and the last '/', the text after the last '/'
\* goes to CompileFlags::parse and its failure fails the parse; otherwise the
\* whole remainder is the expression and the flags are empty.
C2_RemainderRule ==
    \A k \in 1..(Len(hist) - 1) :
        (hist[k].kind = "text" /\ ~IsInvalidId(hist[k + 1])) =>
            hist[k + 1] =
                RemainderRule(RemainderOf(hist[k].text),
                              IF hist[k + 1].kind = "pattern" THEN hist[k + 1].id
                              ELSE Usize(0))

C2_Witness ==
    /\ Len(hist) >= 2
    /\ hist[1] = TextVal(<<"/", "x", "/", "/", "i">>)
    /\ hist[2] = [kind |-> "pattern", expression |-> <<"x", "/">>,
                  flags |-> HS_FLAG_CASELESS, id |-> Usize(0)]

\* The digits of a text of digits without its leading zeros ("0" for zero).
RECURSIVE StripZeros(_)
StripZeros(s) == IF Len(s) > 1 /\ Head(s) = "0" THEN StripZeros(Tail(s)) ELSE s

\* a <= b for two digit texts without leading zeros.
RECURSIVE DigitsLeq(_, _)
DigitsLeq(a, b) ==
    IF Len(a) # Len(b) THEN Len(a) < Len(b)
    ELSE IF a = <<>> THEN TRUE
    ELSE IF Head(a) # Head(b) THEN DigitVal(Head(a)) < DigitVal(Head(b))
    ELSE DigitsLeq(Tail(a), Tail(b))

\* usize::MAX as decimal digits.
UsizeMaxDigits == SubSeq(TooBigDigits, 1, 19) \o <<"5">>

\* The digits of a text read as an unsigned integer: one leading '+' dropped.
UnsignedDigits(s) == IF s # <<>> /\ Head(s) = "+" THEN Tail(s) ELSE s

\* The text is an unsigned integer a usize holds, in the syntax of
\* usize::from_str: decimal digits, at most one '+' before them.
IsUnsignedText(s) ==
    LET d == UnsignedDigits(s)
    IN  /\ d # <<>>
        /\ \A i \in 1..Len(d) : IsDigit(d[i])
        /\ DigitsLeq(StripZeros(d), UsizeMaxDigits)

\* C3: with a ':' in the text, the text before the FIRST ':' is read as an
\* unsigned integer and becomes the id, and the parse fails with InvalidId
\* whenever that text is not an unsigned integer, wherever the ':' stands;
\* with no ':' the id is 0 and the whole text is the remainder.
C3_IdRule ==
    \A k \in 1..(Len(hist) - 1) :
        hist[k].kind = "text" =>
            LET s == hist[k].text
                r == hist[k + 1]
            IN  IF Positions(s, ":") = {}
                THEN r = RemainderRule(s, Usize(0))
                ELSE IF IsUnsignedText(IdTextOf(s))
                THEN /\ ~IsInvalidId(r)
                     /\ r.kind = "pattern" =>
                            UsizeFmt(r.id) = StripZeros(UnsignedDigits(IdTextOf(s)))
                ELSE IsInvalidId(r)

C3_Witness ==
    /\ Len(hist) >= 2
    /\ hist[1] = TextVal(<<"/", "x", ":", "3", "/">>)
    /\ IsInvalidId(hist[2])

\* C10: for every Pattern p with valid flags, Pattern::parse of p's rendering
\* succeeds with id = p.id, flags = p.flags and expression = escape of
\* p.expression, whatever p.expression holds: the first ':' of the rendering
\* is the one after the id and its last '/' the one before the flag letters.
C10_PatternRoundTrip ==
    \A k \in 1..(Len(hist) - 2) :
        (hist[k].kind = "pattern" /\ ValidFlags(hist[k].flags)) =>
            LET p == hist[k]
                t == hist[k + 1].text
            IN  /\ hist[k + 2] = [kind |-> "pattern", expression |-> Escape(p.expression),
                                  flags |-> p.flags, id |-> p.id]
                /\ MinOf(Positions(t, ":")) = Len(UsizeFmt(p.id)) + 1
                /\ MaxOf(Positions(t, "/")) = Len(t) - Len(LettersOf(p.flags))

C10_Witness ==
    /\ Len(hist) = 3
    /\ hist[1] = [kind |-> "pattern", expression |-> <<"/", ":">>,
                  flags |-> HS_FLAG_CASELESS + HS_FLAG_DOTALL, id |-> <<3, 0, 1, 0>>]
    /\ hist[2].kind = "text"
    /\ hist[3] = hist[1]

(***************************************************************************)
(* The engine and the compile calls.                                       *)
(***************************************************************************)
\* The scanning modes a Database<T> is typed by (T: Mode, T::ID).
Modes == {"Block", "Streaming", "Vectored"}

\* The status codes an engine compile call returns.
CompileCodes == {"HS_SUCCESS", "HS_COMPILER_ERROR"}

\* The status codes the other engine calls return.
EngineCodes == {"HS_SUCCESS", "HS_NOMEM"}

\* A NUL character inside a text.
NulChar == "NUL"

\* No engine call was made.
NoCall == [fn |-> "none"]

\* CString::new(text): fails on an interior NUL.
CStringNew(s) == IF NulChar \in Range(s) THEN Err("NulError", NulChar) ELSE Ok(s)

\* The first loop of build_for_platform: the columns of expressions, flags and
\* ids so far, extended pattern by pattern; the `?` leaves at the first NulError.
RECURSIVE BuildColumns(_, _)
BuildColumns(cols, ps) ==
    IF ps = <<>> THEN Ok(cols)
    ELSE LET expr == CStringNew(Head(ps).expression)
         IN  IF ~expr.ok THEN expr
             ELSE BuildColumns([expressions |-> Append(cols.expressions, expr.val),
                                flags |-> Append(cols.flags, Head(ps).flags),
                                ids |-> Append(cols.ids, AsCUint(Head(ps).id))],
                               Tail(ps))

\* The arguments build_for_platform hands to hs_compile_multi, or the error
\* that returns before the call.
CompileMultiCall(ps, mode) ==
    LET cols == BuildColumns([expressions |-> <<>>, flags |-> <<>>, ids |-> <<>>], ps)
    IN  IF ~cols.ok THEN cols
        ELSE Ok([fn |-> "hs_compile_multi",
                 expressions |-> cols.val.expressions,
                 flags |-> cols.val.flags,
                 ids |-> cols.val.ids,
                 elements |-> AsCUint(Usize(Len(ps))),
                 mode |-> mode])

\* The size of the database the engine compiles from expressions: it grows
\* with them, and the model takes their total length, at least 1.
RECURSIVE TotalLen(_)
TotalLen(exprs) == IF exprs = <<>> THEN 0 ELSE Len(Head(exprs)) + TotalLen(Tail(exprs))

DbSizeOf(exprs) == IF TotalLen(exprs) = 0 THEN 1 ELSE TotalLen(exprs)

\* check_compile_error!(rc, err) then Ok(Database::from_ptr(db)): the handle is
\* made only when the engine returned HS_SUCCESS.
CompileResult(rc, mode, size) ==
    IF rc # "HS_SUCCESS" THEN Err("CompileError", rc)
    ELSE Ok([state |-> "live", hmode |-> mode, region |-> size,
             mode |-> mode, size |-> size, intact |-> TRUE])

\* impl Builder<T> for Patterns: build_for_platform, for the engine's status.
BuildForPlatform(ps, mode, rc) ==
    LET call == CompileMultiCall(ps, mode)
    IN  IF ~call.ok THEN [call |-> NoCall, ret |-> call]
        ELSE [call |-> call.val,
              ret |-> CompileResult(rc, mode, DbSizeOf(call.val.expressions))]

\* Database::<T>::compile
DatabaseCompile(expression, flags, mode, rc) ==
    LET expr == CStringNew(expression)
    IN  IF ~expr.ok THEN [call |-> NoCall, ret |-> expr]
        ELSE [call |-> [fn |-> "hs_compile", expression |-> expr.val,
                        flags |-> flags, mode |-> mode],
              ret |-> CompileResult(rc, mode, DbSizeOf(<<expr.val>>))]

(***************************************************************************)
(* Batch compile: a list of Patterns and a mode, then build_for_platform.  *)
(***************************************************************************)
BuildExprs == {<<"x">>, <<"(">>, <<"x", NulChar, "y">>}

BuildIds == {Usize(3), <<0, 0, 1, 0>>, <<3, 0, 1, 0>>}

BuildPatterns ==
    {[expression |-> e, flags |-> f, id |-> i] :
        e \in BuildExprs, f \in {0, HS_FLAG_CASELESS}, i \in BuildIds}

InitBuild ==
    /\ \E ps \in SeqsUpTo(BuildPatterns, MaxPatterns), m \in Modes :
           hist = <<[kind |-> "patterns", patterns |-> ps, mode |-> m]>>
    /\ DbIdle

\* patterns.build::<T>()
Build ==
    /\ Len(hist) = 1
    /\ \E rc \in CompileCodes :
           LET b == BuildForPlatform(hist[1].patterns, hist[1].mode, rc)
           IN  hist' = Append(hist, [kind |-> "build", call |-> b.call, ret |-> b.ret])
    /\ DbUnchanged

NextBuild == Build

SpecBuild == InitBuild /\ [][NextBuild]_vars

\* The value of a c_uint as a usize.
WidenCUint(n) == n \o [i \in 1..(UsizeLimbs - CUintLimbs) |-> 0]

\* C5: batch compile hands the engine three parallel arrays and the count
\* n = the number of patterns, and at every position i the expression, the
\* flags and the id are those of the i-th Pattern, for every id a Pattern
\* can carry.
C5_ColumnsKeepPatterns ==
    (Len(hist) = 2 /\ hist[2].kind = "build" /\ hist[2].call # NoCall) =>
        LET ps == hist[1].patterns
            call == hist[2].call
        IN  /\ WidenCUint(call.elements) = Usize(Len(ps))
            /\ Len(call.expressions) = Len(ps)
            /\ Len(call.flags) = Len(ps)
            /\ Len(call.ids) = Len(ps)
            /\ \A i \in 1..Len(ps) :
                   /\ call.expressions[i] = ps[i].expression
                   /\ call.flags[i] = ps[i].flags
                   /\ WidenCUint(call.ids[i]) = ps[i].id

(***************************************************************************)
(* Serialized databases.  A byte buffer is described by what the engine    *)
(* reads in it: whether its header decodes, whether its body matches the   *)
(* header's checksum, and the mode and size of the database it holds.      *)
(***************************************************************************)
\* The sizes of the serialized databases a caller brings along.
Sizes == {1, 2}

\* The expressions the caller compiles.
CompileExprs == {<<"x">>, <<"x", "y">>, <<"(">>, <<"x", NulChar>>}

NoBytes == [header |-> FALSE, crc |-> FALSE, mode |-> "Block", size |-> 1]

\* Byte slices a caller may hold (Serialized is implemented for every
\* T: AsRef<[u8]>): garbage, and serialized Block databases saved earlier,
\* with a good or a damaged body.
UserBytes ==
    {NoBytes} \cup
    {[header |-> TRUE, crc |-> c, mode |-> "Block", size |-> n] :
        c \in BOOLEAN, n \in Sizes}

\* hs_serialize_database: the bytes of the database behind a handle.
BytesOf(db) == [header |-> TRUE, crc |-> db.intact, mode |-> db.mode, size |-> db.size]

\* DatabaseRef::serialize: a CBuffer over the engine's allocation on success,
\* no buffer otherwise.
SerializeResult(db, rc, ptr) ==
    IF rc # "HS_SUCCESS" THEN Err("EngineError", rc)
    ELSE Ok([state |-> "live", ptr |-> ptr, bytes |-> BytesOf(db)])

\* A Drop impl that releases nothing.
CBufferDropNoFree(h, ptr) == h

\* impl Drop for CBuffer: libc::free(self.0)
CBufferDrop(h, ptr) == [h EXCEPT ![ptr].frees = @ + 1]

\* impl AsRef<[T]> for CBuffer: slice::from_raw_parts(self.0, self.1), a read
\* of the allocation.
CBufferAsRef(h, ptr) == [h EXCEPT ![ptr].readFreed = @ \/ h[ptr].frees > 0]

\* Serialized::size: hs_serialized_database_size reads the header.
SerializedSize(bytes) ==
    IF bytes.header THEN Ok(bytes.size) ELSE Err("EngineError", "HS_INVALID")

\* hs_serialized_database_info(bytes, len, &mut p): on success p points to a
\* string the engine allocated for the caller to free; on failure p is left
\* as it was passed in, null.
EngineInfo(bytes, rc, utf8) ==
    IF ~bytes.header THEN [rc |-> "HS_INVALID", p |-> [null |-> TRUE, utf8 |-> TRUE]]
    ELSE IF rc # "HS_SUCCESS" THEN [rc |-> rc, p |-> [null |-> TRUE, utf8 |-> TRUE]]
    ELSE [rc |-> "HS_SUCCESS", p |-> [null |-> FALSE, utf8 |-> utf8]]

\* Serialized::info: the closure of and_then runs only when the engine
\* succeeds.  It reads p with CStr::from_ptr(p), leaves through the ? of
\* to_str()? when the text is not UTF-8, and only after that frees p when it
\* is not null.
SerializedInfo(bytes, rc, utf8) ==
    LET e == EngineInfo(bytes, rc, utf8)
        read == [alloc |-> ~e.p.null, frees |-> 0, read |-> TRUE]
    IN  IF e.rc # "HS_SUCCESS"
        THEN [ret |-> Err("EngineError", e.rc), str |-> NoStr]
        ELSE IF ~e.p.utf8
        THEN [ret |-> Err("Utf8Error", "info"), str |-> read]
        ELSE [ret |-> Ok("info"),
              str |-> [read EXCEPT !.frees = IF e.p.null THEN 0 ELSE 1]]

\* hs_deserialize_database: a new database, or an error and no database.
EngineDeserialize(bytes, rc) ==
    IF ~bytes.header \/ ~bytes.crc THEN Err("EngineError", "HS_INVALID")
    ELSE IF rc # "HS_SUCCESS" THEN Err("EngineError", rc)
    ELSE Ok([mode |-> bytes.mode, size |-> bytes.size])

\* Serialized::deserialize::<M>: .map(|_| Database::from_ptr(db)), M being the
\* caller's choice of handle type.
Deserialize(bytes, M, rc) ==
    LET r == EngineDeserialize(bytes, rc)
    IN  IF ~r.ok THEN r
        ELSE Ok([state |-> "live", hmode |-> M, region |-> r.val.size,
                 mode |-> r.val.mode, size |-> r.val.size, intact |-> TRUE])

\* hs_deserialize_database_at(bytes, len, db): the header is decoded first;
\* then the database is written at db, which comes without a length, and
\* last its checksum is verified.
EngineDeserializeAt(bytes, db) ==
    IF ~bytes.header THEN [rc |-> "HS_INVALID", wrote |-> FALSE, db |-> db]
    ELSE [rc |-> IF bytes.crc THEN "HS_SUCCESS" ELSE "HS_INVALID",
          wrote |-> TRUE,
          db |-> [db EXCEPT !.mode = bytes.mode, !.size = bytes.size,
                            !.intact = bytes.crc]]

\* DatabaseRef::deserialize_at: the engine's status through .ok().
DeserializeAt(db, bytes) ==
    LET e == EngineDeserializeAt(bytes, db)
    IN  [ret |-> IF e.rc = "HS_SUCCESS" THEN Ok("unit") ELSE Err("EngineError", e.rc),
         wrote |-> e.wrote,
         db |-> e.db]

(***************************************************************************)
(* The database API as a state machine: a caller that holds a database     *)
(* `db` from compile or build, a CBuffer `data` from db.serialize(), and a *)
(* database `restored` from deserialize, and calls the API on them.        *)
(***************************************************************************)
Called(op, ret) ==
    [op |-> op, ok |-> ret.ok, err |-> IF ret.ok THEN "none" ELSE ret.err,
     short |-> FALSE, wrote |-> FALSE, str |-> NoStr]

\* The process has not been stopped by a fault.
Running == last.op # "fault"

LiveDbs == {d \in DbNames : dbs[d] # NoDb}

DataLive == data # NoBuf /\ data.state = "live"

\* A call that returns Result<Database<T>, Error>, bound to the name d when
\* it is Ok.
ReturnDatabase(op, d, ret) ==
    /\ dbs' = IF ret.ok THEN [dbs EXCEPT ![d] = ret.val] ELSE dbs
    /\ last' = Called(op, ret)

Init ==
    /\ hist = <<>>
    /\ DbIdle

\* let db = Database::<T>::compile(expression, flags, platform)
Compile ==
    /\ Running /\ dbs["db"] = NoDb
    /\ \E e \in CompileExprs, m \in Modes, rc \in CompileCodes :
           ReturnDatabase("compile", "db", DatabaseCompile(e, 0, m, rc).ret)
    /\ UNCHANGED <<hist, data, heap>>

\* let db = patterns.build_for_platform::<T>(platform)
BuildMulti ==
    /\ Running /\ dbs["db"] = NoDb
    /\ \E ps \in SeqsUpTo(BuildPatterns, MaxPatterns), m \in Modes, rc \in CompileCodes :
           ReturnDatabase("build_for_platform", "db", BuildForPlatform(ps, m, rc).ret)
    /\ UNCHANGED <<hist, data, heap>>

\* let data = db.serialize(), once the CBuffer held before is gone
Serialize ==
    /\ Running /\ ~DataLive /\ Len(heap) < MaxAllocs
    /\ \E d \in LiveDbs, rc \in EngineCodes :
           LET ptr == Len(heap) + 1
               ret == SerializeResult(dbs[d], rc, ptr)
           IN  /\ heap' = IF ret.ok THEN Append(heap, [frees |-> 0, readFreed |-> FALSE])
                          ELSE heap
               /\ data' = IF ret.ok THEN ret.val ELSE data
               /\ last' = Called("serialize", ret)
    /\ UNCHANGED <<hist, dbs>>

\* &*data / data.as_ref(): the CBuffer read as a slice
Deref ==
    /\ Running /\ DataLive
    /\ heap' = CBufferAsRef(heap, data.ptr)
    /\ last' = Called("deref", Ok(data.bytes))
    /\ UNCHANGED <<hist, dbs, data>>

\* The byte slices a call can be given: the live CBuffer, read through
\* as_ref, or a caller's own bytes.
Sources == {[cbuf |-> FALSE, bytes |-> u] : u \in UserBytes} \cup
           (IF DataLive THEN {[cbuf |-> TRUE, bytes |-> data.bytes]} ELSE {})

ReadSource(src) ==
    heap' = IF src.cbuf THEN CBufferAsRef(heap, data.ptr) ELSE heap

\* data.size()
Size ==
    /\ Running
    /\ \E src \in Sources :
           /\ ReadSource(src)
           /\ last' = Called("size", SerializedSize(src.bytes))
    /\ UNCHANGED <<hist, dbs, data>>

\* data.info()
Info ==
    /\ Running
    /\ \E src \in Sources, rc \in EngineCodes, utf8 \in BOOLEAN :
           LET r == SerializedInfo(src.bytes, rc, utf8)
           IN  /\ ReadSource(src)
               /\ last' = [Called("info", r.ret) EXCEPT !.str = r.str]
    /\ UNCHANGED <<hist, dbs, data>>

\* let restored: Database<M> = data.deserialize()
DeserializeCall ==
    /\ Running /\ dbs["restored"] = NoDb
    /\ \E src \in Sources, M \in Modes, rc \in EngineCodes :
           /\ ReadSource(src)
           /\ ReturnDatabase("deserialize", "restored", Deserialize(src.bytes, M, rc))
    /\ UNCHANGED <<hist, data>>

\* db.deserialize_at(&data) and db.deserialize_at(data): bytes: B is borrowed
\* or, given by value, dropped when the call ends.  A database larger than
\* the target's region is written past its end: the call returns with the
\* memory behind the region overwritten, or the process faults.
DeserializeAtCall ==
    /\ Running
    /\ \E d \in LiveDbs \cap {"db"}, src \in Sources :
           LET r == DeserializeAt(dbs[d], src.bytes)
               size == SerializedSize(src.bytes)
               short == size.ok /\ dbs[d].region < size.val
           IN  /\ \E moved \in (IF src.cbuf THEN BOOLEAN ELSE {FALSE}) :
                      IF moved
                      THEN /\ heap' = CBufferDrop(CBufferAsRef(heap, data.ptr), data.ptr)
                           /\ data' = [state |-> "dropped", ptr |-> data.ptr, bytes |-> NoBytes]
                      ELSE /\ ReadSource(src)
                           /\ data' = data
               /\ \E fault \in (IF r.wrote /\ short THEN BOOLEAN ELSE {FALSE}) :
                      /\ dbs' = [dbs EXCEPT ![d] = r.db]
                      /\ last' = [Called(IF fault THEN "fault" ELSE "deserialize_at", r.ret)
                                    EXCEPT !.short = short, !.wrote = r.wrote]
    /\ UNCHANGED hist

\* drop(data): the CBuffer goes out of scope
DropBuffer ==
    /\ Running /\ DataLive
    /\ heap' = CBufferDrop(heap, data.ptr)
    /\ data' = [state |-> "dropped", ptr |-> data.ptr, bytes |-> NoBytes]
    /\ last' = Called("drop", Ok("unit"))
    /\ UNCHANGED <<hist, dbs>>

Next ==
    \/ Compile
    \/ BuildMulti
    \/ Serialize
    \/ Deref
    \/ Size
    \/ Info
    \/ DeserializeCall
    \/ DeserializeAtCall
    \/ DropBuffer

Spec == Init /\ [][Next]_vars

(***************************************************************************)
(* Claims about the database API.                                          *)
(***************************************************************************)
\* C6: a Database handle's mode always equals the mode its database was
\* compiled with: deserialize::<M2>() and deserialize_at on a handle of mode
\* M2 fail on the bytes of a database compiled in another mode M1.
C6_HandleModeIsCompiledMode ==
    \A d \in LiveDbs : dbs[d].hmode = dbs[d].mode

\* The state part of C7: every engine allocation belongs to the one CBuffer
\* made for it, is unfreed while that CBuffer lives and freed exactly once
\* when it is dropped, and is never read after the free.
C7_Owned ==
    /\ data = NoBuf => heap = <<>>
    /\ data # NoBuf => data.ptr = Len(heap)
    /\ \A i \in 1..Len(heap) :
           /\ ~heap[i].readFreed
           /\ heap[i].frees = IF DataLive /\ data.ptr = i THEN 0 ELSE 1

\* The step part of C7: a failed serialize makes no buffer and frees nothing,
\* and an allocation is freed only by the step that ends its CBuffer's life.
C7_Step ==
    /\ (last'.op = "serialize" /\ ~last'.ok) => (heap' = heap /\ data' = data)
    /\ \A i \in 1..Len(heap) :
           heap'[i].frees # heap[i].frees =>
               /\ DataLive /\ data.ptr = i
               /\ data'.state = "dropped" /\ data'.ptr = i

\* C7: the memory of a CBuffer returned by a successful serialize() is freed
\* exactly once, at its drop, after any reads of it; never zero times, never
\* twice, never read after the free, never held by two owners; a failed
\* serialize() creates no buffer and frees nothing.
C7_FreedExactlyOnce == [][C7_Owned /\ C7_Owned' /\ C7_Step]_vars

C7_Witness ==
    /\ Len(heap) = 2
    /\ data.state = "dropped" /\ data.ptr = 2
    /\ heap[1].frees = 1 /\ heap[2].frees = 1
    /\ last.op = "drop"

\* C8: compile, batch build and deserialize return a whole Database or an
\* error and no Database, and a failed deserialize_at leaves nothing of the
\* database it was reading in the target: a call that fails leaves every
\* handle as it was.
C8_AllOrNothing ==
    [][(last'.op \in {"compile", "build_for_platform", "deserialize", "deserialize_at"}
            /\ ~last'.ok)
        => dbs' = dbs]_vars

\* C9: when the target's region is smaller than the size that size() reports
\* for the buffer, deserialize_at fails with SizeMismatch and writes nothing
\* to the target.
C9_SizeMismatch ==
    (last.op \in {"deserialize_at", "fault"} /\ last.short) =>
        /\ ~last.ok
        /\ last.err = "SizeMismatch"
        /\ ~last.wrote

\* C11: when the engine call of info succeeds, the description string is freed
\* exactly once before info returns, whether info returns the text or a UTF-8
\* error, and it is read only when it is not null; when the engine call
\* fails, nothing is read or freed.
C11_InfoStringFreedOnce ==
    (last.op = "info") =>
        IF last.ok \/ last.err = "Utf8Error"
        THEN /\ last.str.alloc
             /\ last.str.frees = 1
        ELSE /\ ~last.str.read
             /\ last.str.frees = 0

=============================================================================
